---- MODULE Spec2Model ----
(***************************************************************************)
(* A model of the example material of the repository: the NYC taxi         *)
(* notebook (doc/source/data/examples/nyc_taxi_basic_processing.ipynb),    *)
(* the three Tune search-algorithm notebooks (Nevergrad, SigOpt, BayesOpt) *)
(* and the cartpole-crashing experiment file.                              *)
(*                                                                         *)
(* A notebook is a program whose operations are its code cells and whose   *)
(* state is the kernel's variables together with the state of the Ray      *)
(* cluster the cells drive.  The cells are translated from the notebooks.  *)
(* The library behind the calls (ray.data, ray.tune) is not part of the    *)
(* files modelled here; its operations are written from what the notebooks *)
(* document about them (markdown cells, comments and recorded outputs).    *)
(*                                                                         *)
(* The notebook is checked in parts, one specification per part:           *)
(*   SpecRead   reading and inspecting the Parquet files                   *)
(*   SpecTrain  sharding the dataset and feeding the Trainer actors        *)
(*   SpecInfer  batch inference with an actor pool                         *)
(*   SpecTune   the tune.run experiments of the three Tune notebooks       *)
(*   SpecTrial  one trial: the function handed to tune.run on a config     *)
(*   SpecJob    the cartpole-crashing job: crashes, restarts, stopping     *)
(*   SpecClean  the filters, the dropped columns and the pushdown read     *)
(***************************************************************************)
EXTENDS Integers, Sequences, FiniteSets

VARIABLES
    \* ---- reading and inspecting (taxi notebook, cells 3-14)
    readPc,     \* "start" before ds = read_parquet(...), "ds" once ds is bound
    fileRows,   \* fileRows[f]: number of rows of the f-th file of ds
    dsRead,     \* the files of ds whose data has been read
    ran,        \* the cells run so far on ds and on year_ds
    yearDs,     \* "unbound", "bound" or "deleted": the name year_ds
    yearRead,   \* the files of year_ds whose data has been read
    \* ---- ingesting into model trainers (taxi notebook, cells 23-26)
    trainPc,    \* the next cell: "trainers", "split", "train", "get", "del", "end"
    dsRows,     \* the number of rows of ds when it is split
    actors,     \* the Trainer actors that are alive
    handles,    \* the actor handles the list `trainers` holds, by position
    shards,     \* the list `shards`: <<first, end>> row positions of each, end excluded
    task,       \* task[i]: "none", "running" or "returned": the train call on trainer i
    tshard,     \* tshard[i]: the shard handed to the train call on trainer i
    consumed,   \* consumed[i]: the rows of its shard trainer i has iterated over
    lastBatch,  \* lastBatch[i]: the size of the last batch trainer i was given
    retval,     \* retval[i]: what the train call on trainer i returned
    finished,   \* the trainers whose call has returned, in the order they finished
    results,    \* the list ray.get returned (<<>> before it returns)
    Out,        \* the handles the kernel's output history holds: the list the
                \* Trainer cell displayed, <<>> when no value is kept
    \* ---- parallel batch inference (taxi notebook, cells 27-30)
    inferPc,    \* the next cell: "actors_2048", "actors_256", "strategy",
                \* "strategy_run", "end"
    stage,      \* "idle" or "running": the map_batches stage of the current cell
    strategy,   \* the variable `strategy`: <<min_size, max_size>>, <<>> unbound
    pool,       \* <<min_size, max_size>> of the pool of the running stage
    workers,    \* the size of the actor pool: its workers are 1..workers
    blockOwner, \* blockOwner[b]: the worker block b was sent to, 0 for none yet
    blockLeft,  \* blockLeft[b]: the batches of block b not yet processed
    initCalls,  \* initCalls[w]: calls of BatchInferModel.__init__ on worker w
    loadCalls,  \* loadCalls[w]: calls of load_model on worker w
    batchesDone, \* batchesDone[w]: calls of BatchInferModel.__call__ on worker w
    \* ---- the Tune notebooks (Nevergrad, BayesOpt, SigOpt)
    nb,         \* the notebook that is run: "nevergrad", "bayesopt" or "sigopt"
    tunePc,     \* the position of the next code cell of the notebook
    sigoptKey,  \* whether the environment variable SIGOPT_KEY is set
    num_samples, \* the variable num_samples (0: unbound)
    algo,       \* the variable algo: [limit |-> most concurrent trials, 0 for
                \* no limit]; <<>> unbound
    run,        \* the tune.run call under way or last made:
                \* [name, samples, limit]; <<>> before the first
    runState,   \* "idle", "running" or "finished": that tune.run call
    trials,     \* the trials it has started, in order: "RUNNING" or "TERMINATED"
    tuneErr,    \* the exception that stopped the notebook, "" for none
    \* ---- one trial of an experiment: the function handed to tune.run
    exp,        \* the experiment the trial belongs to ("call": a direct call)
    fn,         \* the function tune.run was handed
    config,     \* the trial's config
    fnPc,       \* "called", "loop", "returned" or "raised"
    step,       \* the loop variable `step` of objective
    keysRead,   \* the keys of config the function has read
    reports,    \* what the function has passed to session.report, in order
    fnErr,      \* the exception the function raised, "" for none
    \* ---- the cartpole-crashing training job
    jobPc,      \* "init", "running", "stopped" or "failed"
    worker,     \* worker[w]: "running" or "failed": the rollout workers
    env,        \* env[<<w, k>>]: sub-environment k of worker w:
                \* [status: "up" or "crashed", timesteps: its step() calls,
                \*  life: the environments created in this place so far,
                \*  init_s: the seconds its construction slept]
    fragSteps,  \* the rounds of the rollout fragment under way
    sampled,    \* the environment steps sampled so far
    result,     \* the last training result reported to Tune:
                \* [episode_reward_mean, timesteps_total]; <<>> before the first
    \* ---- cleaning the data (taxi notebook, cells 15-21)
    cleanPc,    \* the next cell: "filter_over_10", "drop_columns", "groupby",
                \* "filter_negative", "pushdown", "del_pushdown", "end"
    fileData,   \* fileData[f]: the rows of the f-th Parquet file, in order
    ds,         \* the variable ds: its blocks, each the rows it holds in order
    pushdown_ds \* the variable pushdown_ds: its blocks; <<>> unbound

readVars == <<readPc, fileRows, dsRead, ran, yearDs, yearRead>>
trainVars == <<trainPc, dsRows, actors, handles, shards, task, tshard, consumed,
               lastBatch, retval, finished, results, Out>>

inferVars == <<inferPc, stage, strategy, pool, workers, blockOwner, blockLeft,
               initCalls, loadCalls, batchesDone>>

tuneVars == <<nb, tunePc, sigoptKey, num_samples, algo, run, runState, trials,
              tuneErr>>

trialVars == <<exp, fn, config, fnPc, step, keysRead, reports, fnErr>>

\* The four parts of the taxi and Tune notebooks that come first.
notebookVars == <<readVars, trainVars, inferVars, tuneVars>>

jobVars == <<jobPc, worker, env, fragSteps, sampled, result>>

cleanVars == <<cleanPc, fileData, ds, pushdown_ds>>

\* The parts that follow them.
moreVars == <<trialVars, jobVars, cleanVars>>

vars == <<readVars, trainVars, inferVars, tuneVars, moreVars>>

(***************************************************************************)
(* Bounds of the model.                                                    *)
(***************************************************************************)
\* The largest number of rows of one Parquet file.
MaxFileRows == 3
\* The largest number of rows of ds when it is split.
MaxRows == 1030
\* The largest number of rows of ds where the termination of the actors is
\* followed to its end.
MaxFewRows == 5
\* The largest number of batches one block is cut into.
MaxBatches == 2
\* The largest actor pool the cluster can hold (a pool without max_size
\* grows no further).
MaxPool == 9
\* The CPUs of the cluster: as many trials can run at once when nothing
\* else limits them.
NumCPUs == 6
\* The largest config["steps"] of a direct call of objective.
MaxSteps == 3
\* The largest number of rows of one Parquet file when ds is cleaned.
MaxCleanRows == 2

(***************************************************************************)
(* Reading and inspecting the data.                                        *)
(***************************************************************************)
\* ds is read from two files (the list handed to read_parquet).
NumDsFiles == 2
\* year_ds is read from the 12 monthly files of the 2009 directory.
NumYearFiles == 12
\* The argument of ds.take(1).
take_limit == 1

DsFiles == 1..NumDsFiles
YearFiles == 1..NumYearFiles

InspectCells == {"schema", "count", "repr", "take1", "size_bytes"}
ConsumeCells == {"fully_executed", "max", "map_batches_take"}

\* ---- the dataset library, as the notebook documents it

\* read_parquet is semi-lazy: the first file is read eagerly, the others
\* are left unread.
EagerRead(files) == IF files = {} THEN {} ELSE {1}

\* Rows of the first k files.
RECURSIVE PrefixRows(_, _)
PrefixRows(rows, k) == IF k = 0 THEN 0 ELSE rows[k] + PrefixRows(rows, k - 1)

\* take(limit) reads the files in order until it holds limit rows (or the
\* files are exhausted); what was read before stays read.
TakeRead(rows, n, read, limit) ==
    LET enough == {k \in 1..n : PrefixRows(rows, k) >= limit}
        last == IF enough = {} THEN n
                ELSE CHOOSE k \in enough : \A j \in enough : k <= j
    IN read \cup (1..last)

\* schema(), count(), size_bytes() and the repr are answered from the
\* Parquet metadata: no file is read.
MetadataRead(read) == read

\* fully_executed(), an aggregate such as max(), and map_batches() need
\* the underlying data of every file.
FullRead(files) == files

\* ---- the cells

\* ds = ray.data.read_parquet([.../2009/01/data.parquet, .../2009/02/data.parquet])
ReadDs ==
    /\ readPc = "start"
    /\ readPc' = "ds"
    /\ dsRead' = EagerRead(DsFiles)
    /\ UNCHANGED <<fileRows, ran, yearDs, yearRead, trainVars, inferVars, tuneVars,
                   moreVars>>

\* A cell on ds that has run: it is recorded in ran and leaves `read` read.
DsCell(name, read) ==
    /\ readPc = "ds"
    /\ ran' = ran \cup {name}
    /\ dsRead' = read
    /\ UNCHANGED <<readPc, fileRows, yearDs, yearRead, trainVars, inferVars, tuneVars,
                   moreVars>>

\* ds.schema()
Schema == DsCell("schema", MetadataRead(dsRead))

\* ds.count()
Count == DsCell("count", MetadataRead(dsRead))

\* ds   (the repr of the Dataset)
ReprDs == DsCell("repr", MetadataRead(dsRead))

\* ds.take(1)
TakeOne == DsCell("take1", TakeRead(fileRows, NumDsFiles, dsRead, take_limit))

\* A size_bytes cell written as the later cell is: the full read comes first.
SizeBytesAfterFullRead == DsCell("size_bytes", FullRead(DsFiles))

\* ds.size_bytes()
SizeBytes == DsCell("size_bytes", MetadataRead(dsRead))

\* A fully_executed cell that lost its fully_executed() call.
FullyExecutedDropped == DsCell("fully_executed", MetadataRead(dsRead))

\* ds.fully_executed().size_bytes()
FullyExecutedSizeBytes == DsCell("fully_executed", MetadataRead(FullRead(DsFiles)))

\* ds.max(["trip_distance", "tip_amount", "passenger_count"])
MaxCell == DsCell("max", FullRead(DsFiles))

\* ds.map_batches(lambda df: df[df["passenger_count"] > 10]).take()
MapBatchesTake == DsCell("map_batches_take", FullRead(DsFiles))

\* year_ds = ray.data.read_parquet("s3://ursa-labs-taxi-data/2009")
ReadYearDs ==
    /\ yearDs = "unbound"
    /\ yearDs' = "bound"
    /\ yearRead' = EagerRead(YearFiles)
    /\ UNCHANGED <<readPc, fileRows, dsRead, ran, trainVars, inferVars, tuneVars,
                   moreVars>>

\* A year_ds cell that forces the read instead of showing the repr.
ReprYearDsForcesRead ==
    /\ yearDs = "bound"
    /\ yearRead' = FullRead(YearFiles)
    /\ ran' = ran \cup {"year_repr"}
    /\ UNCHANGED <<readPc, fileRows, dsRead, yearDs, trainVars, inferVars, tuneVars,
                   moreVars>>

\* year_ds   (the repr of the 12-file Dataset)
ReprYearDs ==
    /\ yearDs = "bound"
    /\ yearRead' = MetadataRead(yearRead)
    /\ ran' = ran \cup {"year_repr"}
    /\ UNCHANGED <<readPc, fileRows, dsRead, yearDs, trainVars, inferVars, tuneVars,
                   moreVars>>

\* del year_ds
DelYearDs ==
    /\ yearDs = "bound"
    /\ yearDs' = "deleted"
    /\ UNCHANGED <<readPc, fileRows, dsRead, ran, yearRead, trainVars, inferVars, tuneVars,
                   moreVars>>

\* Before the first cell: the files exist (each holds at least one row: the
\* recorded take(1) output is a row of the first file), nothing is bound.
ReadStart ==
    /\ readPc = "start"
    /\ fileRows \in [DsFiles -> 1..MaxFileRows]
    /\ dsRead = {}
    /\ ran = {}
    /\ yearDs = "unbound"
    /\ yearRead = {}

\* The part of the notebook that is not being run: nothing of it is bound.
ReadOff ==
    /\ readPc = "off"
    /\ fileRows = [f \in DsFiles |-> 1]
    /\ dsRead = {}
    /\ ran = {}
    /\ yearDs = "off"
    /\ yearRead = {}

TrainOff ==
    /\ trainPc = "off"
    /\ dsRows = 0
    /\ actors = {}
    /\ handles = <<>>
    /\ shards = <<>>
    /\ task = <<>>
    /\ tshard = <<>>
    /\ consumed = <<>>
    /\ lastBatch = <<>>
    /\ retval = <<>>
    /\ finished = <<>>
    /\ results = <<>>
    /\ Out = <<>>

InferOff ==
    /\ inferPc = "off"
    /\ stage = "idle"
    /\ strategy = <<>>
    /\ pool = <<>>
    /\ workers = 0
    /\ blockOwner = <<>>
    /\ blockLeft = <<>>
    /\ initCalls = <<>>
    /\ loadCalls = <<>>
    /\ batchesDone = <<>>

TuneOff ==
    /\ nb = "off"
    /\ tunePc = 0
    /\ sigoptKey = FALSE
    /\ num_samples = 0
    /\ algo = <<>>
    /\ run = <<>>
    /\ runState = "idle"
    /\ trials = <<>>
    /\ tuneErr = ""

TrialOff ==
    /\ exp = "off"
    /\ fn = ""
    /\ config = <<>>
    /\ fnPc = "off"
    /\ step = 0
    /\ keysRead = {}
    /\ reports = <<>>
    /\ fnErr = ""

JobOff ==
    /\ jobPc = "off"
    /\ worker = <<>>
    /\ env = <<>>
    /\ fragSteps = 0
    /\ sampled = 0
    /\ result = <<>>

CleanOff ==
    /\ cleanPc = "off"
    /\ fileData = <<>>
    /\ ds = <<>>
    /\ pushdown_ds = <<>>

MoreOff == TrialOff /\ JobOff /\ CleanOff

InitRead == ReadStart /\ TrainOff /\ InferOff /\ TuneOff /\ MoreOff

\* The reader may run the inspection cells in any order, and again.
NextRead ==
    \/ ReadDs
    \/ Schema
    \/ Count
    \/ ReprDs
    \/ TakeOne
    \/ SizeBytes
    \/ FullyExecutedSizeBytes
    \/ MaxCell
    \/ MapBatchesTake
    \/ ReadYearDs
    \/ ReprYearDs
    \/ DelYearDs

SpecRead == InitRead /\ [][NextRead]_vars

(***************************************************************************)
(* Ingesting into model trainers.                                          *)
(***************************************************************************)
\* trainers = [Trainer.remote(i) for i in range(4)]
NumTrainers == 4
\* shard.iter_batches(batch_size=256)
batch_size == 256

Ranks == 1..NumTrainers

\* ---- the dataset and actor library, as the notebook documents it

\* Rows of a shard <<first, end>>.
ShardCount(sh) == sh[2] - sh[1]

\* split(n, equal): n shards that are consecutive runs of the rows of the
\* dataset.  With equal=True every shard holds rows \div n rows (the recorded
\* output: four shards of 6867923 rows); otherwise the rows are dealt out
\* as they come and the first rows % n shards hold one row more.
Split(rows, n, equal) ==
    LET q == rows \div n
        r == rows % n
        first(i) == IF equal THEN (i - 1) * q
                    ELSE (i - 1) * q + (IF i - 1 < r THEN i - 1 ELSE r)
        size(i) == IF equal THEN q ELSE q + (IF i <= r THEN 1 ELSE 0)
    IN [i \in 1..n |-> <<first(i), first(i) + size(i)>>]

\* iter_batches(batch_size): the next batch holds batch_size rows, the last
\* one what is left.
NextBatchSize(sh, done, size) ==
    IF ShardCount(sh) - done < size THEN ShardCount(sh) - done ELSE size

\* ray.get(refs): the values of the references, in the order of the list.
RayGet(refs, value) == [k \in 1..Len(refs) |-> value[refs[k]]]

\* ---- the cells and the Trainer actor

\* trainers = [Trainer.remote(i) for i in range(4)]
\* trainers
\* The cell ends with the expression `trainers`, whose value is displayed
\* (the recorded execute_result of the cell).  A notebook kernel keeps a
\* displayed value in its output history (Out[23], _23); the same lines run
\* as a script keep nothing.
CreateTrainers ==
    /\ trainPc = "trainers"
    /\ trainPc' = "split"
    /\ actors' = Ranks
    /\ handles' = [i \in Ranks |-> i]
    /\ task' = [i \in Ranks |-> "none"]
    /\ tshard' = [i \in Ranks |-> <<0, 0>>]
    /\ consumed' = [i \in Ranks |-> 0]
    /\ lastBatch' = [i \in Ranks |-> 0]
    /\ retval' = [i \in Ranks |-> 0]
    /\ \E kept \in BOOLEAN : Out' = IF kept THEN [i \in Ranks |-> i] ELSE <<>>
    /\ UNCHANGED <<dsRows, shards, finished, results, readVars, inferVars, tuneVars,
                   moreVars>>

\* A split cell that leaves out equal=True.
SplitUnequal ==
    /\ trainPc = "split"
    /\ trainPc' = "train"
    /\ shards' = Split(dsRows, Len(handles), FALSE)
    /\ UNCHANGED <<dsRows, actors, handles, task, tshard, consumed, lastBatch,
                   retval, finished, results, Out, readVars, inferVars, tuneVars,
                   moreVars>>

\* shards = ds.split(n=len(trainers), equal=True)
SplitCell ==
    /\ trainPc = "split"
    /\ trainPc' = "train"
    /\ shards' = Split(dsRows, Len(handles), TRUE)
    /\ UNCHANGED <<dsRows, actors, handles, task, tshard, consumed, lastBatch,
                   retval, finished, results, Out, readVars, inferVars, tuneVars,
                   moreVars>>

\* zip(trainers, shards): the shard paired with the k-th trainer.
ZipShard(k) == shards[k]

\* [w.train.remote(s) for w, s in zip(trainers, shards)]: the calls are
\* submitted; ray.get then waits for them.
SubmitTrain ==
    /\ trainPc = "train"
    /\ trainPc' = "get"
    /\ task' = [i \in Ranks |-> "running"]
    /\ tshard' = [i \in Ranks |-> ZipShard(i)]
    /\ UNCHANGED <<dsRows, actors, handles, shards, consumed, lastBatch,
                   retval, finished, results, Out, readVars, inferVars, tuneVars,
                   moreVars>>

\* Trainer.train: for batch in shard.iter_batches(batch_size=256): pass
TrainBatch(i) ==
    /\ i \in DOMAIN task
    /\ task[i] = "running"
    /\ consumed[i] < ShardCount(tshard[i])
    /\ LET b == NextBatchSize(tshard[i], consumed[i], batch_size)
       IN /\ lastBatch' = [lastBatch EXCEPT ![i] = b]
          /\ consumed' = [consumed EXCEPT ![i] = @ + b]
    /\ UNCHANGED <<trainPc, dsRows, actors, handles, shards, task, tshard,
                   retval, finished, results, Out, readVars, inferVars, tuneVars,
                   moreVars>>

\* A train method that returns the size of its last batch.
TrainValueLastBatch(i) == lastBatch[i]

\* Trainer.train: return shard.count()
TrainValue(i) == ShardCount(tshard[i])

\* The loop of Trainer.train is over: the call returns.
TrainReturn(i) ==
    /\ i \in DOMAIN task
    /\ task[i] = "running"
    /\ consumed[i] = ShardCount(tshard[i])
    /\ task' = [task EXCEPT ![i] = "returned"]
    /\ retval' = [retval EXCEPT ![i] = TrainValue(i)]
    /\ finished' = Append(finished, i)
    /\ UNCHANGED <<trainPc, dsRows, actors, handles, shards, tshard, consumed,
                   lastBatch, results, Out, readVars, inferVars, tuneVars,
                   moreVars>>

\* ray.get([...]) returns once every call has returned.
GetResults ==
    /\ trainPc = "get"
    /\ \A i \in Ranks : task[i] = "returned"
    /\ trainPc' = "del"
    /\ results' = RayGet(handles, retval)
    /\ UNCHANGED <<dsRows, actors, handles, shards, task, tshard, consumed,
                   lastBatch, retval, finished, Out, readVars, inferVars, tuneVars,
                   moreVars>>

\* del trainers
DelTrainers ==
    /\ trainPc = "del"
    /\ trainPc' = "end"
    /\ handles' = <<>>
    /\ UNCHANGED <<dsRows, actors, shards, task, tshard, consumed, lastBatch,
                   retval, finished, results, Out, readVars, inferVars, tuneVars,
                   moreVars>>

\* The actors some handle still refers to: through the list `trainers` or
\* through the list the output history holds.
Referenced == {handles[k] : k \in 1..Len(handles)} \cup {Out[k] : k \in 1..Len(Out)}

\* An actor no handle refers to any more terminates.
ActorExit(i) ==
    /\ i \in actors
    /\ i \notin Referenced
    /\ actors' = actors \ {i}
    /\ UNCHANGED <<trainPc, dsRows, handles, shards, task, tshard, consumed,
                   lastBatch, retval, finished, results, Out, readVars, inferVars, tuneVars,
                   moreVars>>

\* Before the Trainer cell: ds has been cleaned and shuffled and holds some
\* number of rows.
TrainStart ==
    /\ trainPc = "trainers"
    /\ dsRows \in 0..MaxRows
    /\ actors = {}
    /\ handles = <<>>
    /\ shards = <<>>
    /\ task = <<>>
    /\ tshard = <<>>
    /\ consumed = <<>>
    /\ lastBatch = <<>>
    /\ retval = <<>>
    /\ finished = <<>>
    /\ results = <<>>
    /\ Out = <<>>

InitTrain == ReadOff /\ TrainStart /\ InferOff /\ TuneOff /\ MoreOff

NextTrain ==
    \/ CreateTrainers
    \/ SplitCell
    \/ SubmitTrain
    \/ \E i \in Ranks : TrainBatch(i)
    \/ \E i \in Ranks : TrainReturn(i)
    \/ GetResults
    \/ DelTrainers
    \/ \E i \in Ranks : ActorExit(i)

SpecTrain == InitTrain /\ [][NextTrain]_vars

\* The same cells on a ds of a few rows.
InitTrainFew == InitTrain /\ dsRows <= MaxFewRows

\* The kernel runs the cells one after the other, the train calls run in
\* the actors and the cluster collects an actor no handle refers to: a step
\* that can be taken is taken.
FairSpecTrain == InitTrainFew /\ [][NextTrain]_vars /\ WF_vars(NextTrain)

(***************************************************************************)
(* Parallel batch inference.                                               *)
(***************************************************************************)
\* The stages run over the 2 blocks of ds (the progress bars count 2/2).
NumBlocks == 2
\* strategy = ActorPoolStrategy(min_size=2, max_size=8)
min_size == 2
max_size == 8

Blocks == 1..NumBlocks
PoolIds == 1..MaxPool

\* ---- the callable class of the notebook

\* BatchInferModel.__init__: self.model = load_model()
InitLoads(w, loads) == [loads EXCEPT ![w] = @ + 1]

\* A __call__ that loads the model again for every batch.
CallLoadsAgain(w, loads) == [loads EXCEPT ![w] = @ + 1]

\* BatchInferModel.__call__: return self.model(batch)
CallLoads(w, loads) == loads

\* ---- the actor pool of map_batches, as the notebook documents it

\* compute="actors": a pool of at least one worker with no upper bound of
\* its own.
DefaultStrategy == <<1, MaxPool>>

\* map_batches(BatchInferModel, compute=...) starts: the pool is created
\* with min_size workers, the blocks wait to be sent to a worker.
StartStage(bounds) ==
    /\ stage = "idle"
    /\ stage' = "running"
    /\ pool' = bounds
    /\ workers' = bounds[1]
    /\ blockOwner' = [b \in Blocks |-> 0]
    /\ blockLeft' \in [Blocks -> 1..MaxBatches]
    /\ initCalls' = [w \in PoolIds |-> 0]
    /\ loadCalls' = [w \in PoolIds |-> 0]
    /\ batchesDone' = [w \in PoolIds |-> 0]
    /\ UNCHANGED <<inferPc, strategy, readVars, trainVars, tuneVars, moreVars>>

\* The pool scales up by one worker, never past max_size.
AddWorker ==
    /\ stage = "running"
    /\ workers < pool[2]
    /\ workers' = workers + 1
    /\ UNCHANGED <<inferPc, stage, strategy, pool, blockOwner, blockLeft,
                   initCalls, loadCalls, batchesDone, readVars, trainVars, tuneVars,
                   moreVars>>

\* A block is sent to a worker of the pool.
AssignBlock(b, w) ==
    /\ stage = "running"
    /\ blockOwner[b] = 0
    /\ w \in 1..workers
    /\ blockOwner' = [blockOwner EXCEPT ![b] = w]
    /\ UNCHANGED <<inferPc, stage, strategy, pool, workers, blockLeft,
                   initCalls, loadCalls, batchesDone, readVars, trainVars, tuneVars,
                   moreVars>>

\* The worker that holds block b processes its next batch.  The worker
\* constructs the callable class before the first batch it processes and
\* keeps the instance for the batches that follow.
ProcessBatch(b) ==
    /\ stage = "running"
    /\ blockOwner[b] # 0
    /\ blockLeft[b] > 0
    /\ LET w == blockOwner[b]
           fresh == initCalls[w] = 0
           constructed == IF fresh THEN InitLoads(w, loadCalls) ELSE loadCalls
       IN /\ initCalls' = IF fresh THEN [initCalls EXCEPT ![w] = 1] ELSE initCalls
          /\ loadCalls' = CallLoads(w, constructed)
          /\ batchesDone' = [batchesDone EXCEPT ![w] = @ + 1]
    /\ blockLeft' = [blockLeft EXCEPT ![b] = @ - 1]
    /\ UNCHANGED <<inferPc, stage, strategy, pool, workers, blockOwner,
                   readVars, trainVars, tuneVars, moreVars>>

\* Every batch of every block is processed: take() returns, the pool is
\* torn down and the cell is over.
FinishStage ==
    /\ stage = "running"
    /\ \A b \in Blocks : blockLeft[b] = 0
    /\ stage' = "idle"
    /\ workers' = 0
    /\ inferPc' = CASE inferPc = "actors_2048" -> "actors_256"
                    [] inferPc = "actors_256" -> "strategy"
                    [] OTHER -> "end"
    /\ UNCHANGED <<strategy, pool, blockOwner, blockLeft, initCalls, loadCalls,
                   batchesDone, readVars, trainVars, tuneVars, moreVars>>

\* ---- the cells

\* ds.map_batches(BatchInferModel, batch_size=2048, compute="actors").take()
MapBatchesActors2048 ==
    /\ inferPc = "actors_2048"
    /\ StartStage(DefaultStrategy)

\* ds.map_batches(BatchInferModel, batch_size=256, compute="actors").take()
MapBatchesActors256 ==
    /\ inferPc = "actors_256"
    /\ StartStage(DefaultStrategy)

\* A strategy cell that leaves the bounds of the pool at their defaults.
StrategyDefaults ==
    /\ inferPc = "strategy"
    /\ inferPc' = "strategy_run"
    /\ strategy' = DefaultStrategy
    /\ UNCHANGED <<stage, pool, workers, blockOwner, blockLeft, initCalls,
                   loadCalls, batchesDone, readVars, trainVars, tuneVars,
                   moreVars>>

\* strategy = ActorPoolStrategy(min_size=2, max_size=8)
StrategyCell ==
    /\ inferPc = "strategy"
    /\ inferPc' = "strategy_run"
    /\ strategy' = <<min_size, max_size>>
    /\ UNCHANGED <<stage, pool, workers, blockOwner, blockLeft, initCalls,
                   loadCalls, batchesDone, readVars, trainVars, tuneVars,
                   moreVars>>

\* ds.map_batches(BatchInferModel, batch_size=256, compute=strategy).take()
MapBatchesStrategy ==
    /\ inferPc = "strategy_run"
    /\ StartStage(strategy)

\* Before the first inference cell: no stage runs, `strategy` is unbound.
InferStart ==
    /\ inferPc = "actors_2048"
    /\ stage = "idle"
    /\ strategy = <<>>
    /\ pool = <<>>
    /\ workers = 0
    /\ blockOwner = <<>>
    /\ blockLeft = <<>>
    /\ initCalls = <<>>
    /\ loadCalls = <<>>
    /\ batchesDone = <<>>

InitInfer == ReadOff /\ TrainOff /\ InferStart /\ TuneOff /\ MoreOff

NextInfer ==
    \/ MapBatchesActors2048
    \/ MapBatchesActors256
    \/ StrategyCell
    \/ MapBatchesStrategy
    \/ AddWorker
    \/ \E b \in Blocks, w \in PoolIds : AssignBlock(b, w)
    \/ \E b \in Blocks : ProcessBatch(b)
    \/ FinishStage

SpecInfer == InitInfer /\ [][NextInfer]_vars

(***************************************************************************)
(* The Tune notebooks.                                                     *)
(***************************************************************************)
\* The code cells of each notebook, top to bottom, by what they do.
NevergradCells ==
    <<"imports", "defs", "defs", "ray_init", "limiter", "num_samples_1000",
      "num_samples_override", "search_space", "nevergrad_exp", "print",
      "search_space", "limiter", "nevergrad_exp_space", "shutdown">>

BayesOptCells ==
    <<"imports", "defs", "defs", "ray_init", "limiter", "num_samples_1000",
      "num_samples_override", "search_space", "bayesopt_exp", "print",
      "shutdown">>

SigOptCells ==
    <<"imports_key", "defs", "defs", "ray_init", "search_space", "search_space",
      "sigopt_search", "num_samples_override", "sigopt_exp", "print", "defs",
      "sigopt_search", "sigopt_multiobj_exp", "print", "defs", "prior_setup",
      "sigopt_prior_multi_exp", "print", "shutdown">>

Notebooks == {"nevergrad", "bayesopt", "sigopt"}

Cells(n) ==
    CASE n = "nevergrad" -> NevergradCells
      [] n = "bayesopt" -> BayesOptCells
      [] n = "sigopt" -> SigOptCells
      [] OTHER -> <<>>

\* Cells that change nothing the model keeps track of: imports, function
\* definitions, ray.init, search spaces, prints, ray.shutdown.
PlainCells == {"imports", "defs", "ray_init", "search_space", "print", "shutdown"}
\* Cells that call tune.run, by the experiment they run.
RunCells == {"nevergrad_exp", "nevergrad_exp_space", "bayesopt_exp",
             "sigopt_exp", "sigopt_multiobj_exp", "sigopt_prior_multi_exp"}

\* The cell that runs next, "" when the notebook is over or has stopped.
Cell ==
    IF tuneErr = "" /\ runState # "running" /\ tunePc \in 1..Len(Cells(nb))
    THEN Cells(nb)[tunePc] ELSE ""

\* ---- what the cells bind

\* algo = NevergradSearch(...) / BayesOptSearch(...) left without its
\* ConcurrencyLimiter.
UnlimitedAlgo == [limit |-> 0]

\* algo = ConcurrencyLimiter(algo, max_concurrent=4)
LimitedAlgo == [limit |-> 4]

\* A SigOptSearch given the max_concurrent of the other notebooks.
SigOptAlgoOfFour == [limit |-> 4]

\* algo = SigOptSearch(..., max_concurrent=1, ...)
SigOptAlgo == [limit |-> 1]

\* num_samples = 1000
num_samples_set == 1000
\* num_samples = 10   (the override for the smoke tests)
num_samples_override == 10

\* tune.run called without num_samples runs this many trials.
default_num_samples == 1

\* A tune.run call that leaves out num_samples.
RunSamplesLeftOut == default_num_samples

\* tune.run(..., num_samples=num_samples, ...)
RunSamples == num_samples

\* ---- tune.run, as the notebooks document it

Running == {t \in 1..Len(trials) : trials[t] = "RUNNING"}

\* The search algorithm suggests the next configuration and its trial
\* starts: fewer than num_samples were suggested, the searcher's limit on
\* concurrent trials is not reached, and a CPU is free.
StartTrial ==
    /\ runState = "running"
    /\ Len(trials) < run.samples
    /\ run.limit = 0 \/ Cardinality(Running) < run.limit
    /\ Cardinality(Running) < NumCPUs
    /\ trials' = Append(trials, "RUNNING")
    /\ UNCHANGED <<nb, tunePc, sigoptKey, num_samples, algo, run, runState,
                   tuneErr, readVars, trainVars, inferVars, moreVars>>

\* A trial's function returns: the trial is complete.
CompleteTrial(t) ==
    /\ runState = "running"
    /\ t \in Running
    /\ trials' = [trials EXCEPT ![t] = "TERMINATED"]
    /\ UNCHANGED <<nb, tunePc, sigoptKey, num_samples, algo, run, runState,
                   tuneErr, readVars, trainVars, inferVars, moreVars>>

\* Every one of the num_samples trials is complete: tune.run returns.
FinishRun ==
    /\ runState = "running"
    /\ Len(trials) = run.samples
    /\ Running = {}
    /\ runState' = "finished"
    /\ tunePc' = tunePc + 1
    /\ UNCHANGED <<nb, sigoptKey, num_samples, algo, run, trials, tuneErr,
                   readVars, trainVars, inferVars, moreVars>>

\* ---- the cells

PlainCell ==
    /\ Cell \in PlainCells
    /\ tunePc' = tunePc + 1
    /\ UNCHANGED <<nb, sigoptKey, num_samples, algo, run, runState, trials,
                   tuneErr, readVars, trainVars, inferVars, moreVars>>

\* An imports cell that does not look for the key.
ImportsNoKeyCheck ==
    /\ Cell = "imports_key"
    /\ tunePc' = tunePc + 1
    /\ UNCHANGED <<nb, sigoptKey, num_samples, algo, run, runState, trials,
                   tuneErr, readVars, trainVars, inferVars, moreVars>>

\* The imports cell of the SigOpt notebook:
\* if "SIGOPT_KEY" not in os.environ: raise ValueError(...)
ImportsKeyCheck ==
    /\ Cell = "imports_key"
    /\ IF sigoptKey
       THEN tunePc' = tunePc + 1 /\ UNCHANGED tuneErr
       ELSE tuneErr' = "ValueError" /\ UNCHANGED tunePc
    /\ UNCHANGED <<nb, sigoptKey, num_samples, algo, run, runState, trials,
                   readVars, trainVars, inferVars, moreVars>>

\* algo = NevergradSearch(...) / BayesOptSearch(...)
\* algo = ConcurrencyLimiter(algo, max_concurrent=4)
LimiterCell ==
    /\ Cell = "limiter"
    /\ algo' = LimitedAlgo
    /\ tunePc' = tunePc + 1
    /\ UNCHANGED <<nb, sigoptKey, num_samples, run, runState, trials, tuneErr,
                   readVars, trainVars, inferVars, moreVars>>

\* algo = SigOptSearch(space, ..., max_concurrent=1, ...)
SigOptSearchCell ==
    /\ Cell = "sigopt_search"
    /\ algo' = SigOptAlgo
    /\ tunePc' = tunePc + 1
    /\ UNCHANGED <<nb, sigoptKey, num_samples, run, runState, trials, tuneErr,
                   readVars, trainVars, inferVars, moreVars>>

\* num_samples = 1000
NumSamplesCell ==
    /\ Cell = "num_samples_1000"
    /\ num_samples' = num_samples_set
    /\ tunePc' = tunePc + 1
    /\ UNCHANGED <<nb, sigoptKey, algo, run, runState, trials, tuneErr,
                   readVars, trainVars, inferVars, moreVars>>

\* The override cell left out of the run (it is tagged remove-cell).
NumSamplesOverrideRemoved ==
    /\ Cell = "num_samples_override"
    /\ tunePc' = tunePc + 1
    /\ UNCHANGED <<nb, sigoptKey, num_samples, algo, run, runState, trials,
                   tuneErr, readVars, trainVars, inferVars, moreVars>>

\* num_samples = 10
NumSamplesOverrideCell ==
    /\ Cell = "num_samples_override"
    /\ num_samples' = num_samples_override
    /\ tunePc' = tunePc + 1
    /\ UNCHANGED <<nb, sigoptKey, algo, run, runState, trials, tuneErr,
                   readVars, trainVars, inferVars, moreVars>>

\* analysis = tune.run(..., search_alg=algo, num_samples=num_samples, ...)
TuneRun ==
    /\ Cell \in RunCells
    /\ run' = [name |-> Cell, samples |-> RunSamples, limit |-> algo.limit]
    /\ runState' = "running"
    /\ trials' = <<>>
    /\ UNCHANGED <<nb, tunePc, sigoptKey, num_samples, algo, tuneErr,
                   readVars, trainVars, inferVars, moreVars>>

\* samples = num_samples
\* conn = Connection(client_token=os.environ["SIGOPT_KEY"])
\* No cell imports or defines the name Connection: the cell stops there.
PriorSetup ==
    /\ Cell = "prior_setup"
    /\ tuneErr' = "NameError"
    /\ UNCHANGED <<nb, tunePc, sigoptKey, num_samples, algo, run, runState,
                   trials, readVars, trainVars, inferVars, moreVars>>

\* Before the first cell of one of the notebooks.
TuneStart ==
    /\ nb \in Notebooks
    /\ tunePc = 1
    /\ sigoptKey \in BOOLEAN
    /\ num_samples = 0
    /\ algo = <<>>
    /\ run = <<>>
    /\ runState = "idle"
    /\ trials = <<>>
    /\ tuneErr = ""

InitTune == ReadOff /\ TrainOff /\ InferOff /\ TuneStart /\ MoreOff

NextTune ==
    \/ PlainCell
    \/ ImportsKeyCheck
    \/ LimiterCell
    \/ SigOptSearchCell
    \/ NumSamplesCell
    \/ NumSamplesOverrideCell
    \/ TuneRun
    \/ PriorSetup
    \/ StartTrial
    \/ \E t \in 1..Len(trials) : CompleteTrial(t)
    \/ FinishRun

SpecTune == InitTune /\ [][NextTune]_vars

\* A trial's function ends after its steps and a cell of a notebook run top
\* to bottom ends too: no step that can be taken is put off for ever.
FairSpecTune == SpecTune /\ WF_vars(NextTune)

(***************************************************************************)
(* One trial: the function handed to tune.run, run on a trial's config.    *)
(***************************************************************************)
\* "steps": 100
config_steps == 100

\* ---- sampling, as the notebooks use it

\* tune.choice(values), ng.p.Choice(choices=values), categorical_values:
\* one of the elements of the list.
Choice(values) == {values[k] : k \in DOMAIN values}

\* tune.uniform(lo, hi), ng.p.Scalar(lower, upper), bounds min..max: a value
\* between the two; the ends and the middle stand for the range.
Uniform(lo, hi) == {lo, (lo + hi) \div 2, hi}

\* A trial's config: the config handed to tune.run, completed by what the
\* search algorithm suggests.
Merge(given, suggested) ==
    [k \in DOMAIN given \cup DOMAIN suggested |->
        IF k \in DOMAIN given THEN given[k] ELSE suggested[k]]

\* ---- the search spaces and configs of the cells

\* search_config = {"steps": 100, "width": tune.uniform(0, 20),
\*   "height": tune.uniform(-100, 100), "activation": tune.choice(["relu, tanh"])}
search_config ==
    [steps : {config_steps}, width : Uniform(0, 20), height : Uniform(-100, 100),
     activation : Choice(<<"relu, tanh">>)]

\* space = ng.p.Dict(width=ng.p.Scalar(lower=0, upper=20),
\*   height=ng.p.Scalar(lower=-100, upper=100),
\*   activation=ng.p.Choice(choices=["relu", "tanh"]))
NevergradSpace ==
    [width : Uniform(0, 20), height : Uniform(-100, 100),
     activation : Choice(<<"relu", "tanh">>)]

\* search_space = {"steps": 100, "width": tune.uniform(0, 20),
\*   "height": tune.uniform(-100, 100)}
search_space ==
    [steps : {config_steps}, width : Uniform(0, 20), height : Uniform(-100, 100)]

\* space = [{"name": "width", "type": "int", "bounds": {"min": 0, "max": 20}},
\*   {"name": "height", "type": "int", "bounds": {"min": -100, "max": 100}},
\*   {"name": "activation", "type": "categorical",
\*    "categorical_values": ["relu","tanh"]}]
SigOptSpace ==
    [width : Uniform(0, 20), height : Uniform(-100, 100),
     activation : Choice(<<"relu", "tanh">>)]

\* space = [{"name": "w1", "type": "double", "bounds": {"min": 0, "max": 1}}]
MultiObjSpace == [w1 : Uniform(0, 1)]

\* parameters=[{"name": "w1", "bounds": {"max": 1, "min": 0}, ...},
\*             {"name": "w2", "bounds": {"max": 1, "min": 0}, ...}]
PriorSpace == [w1 : Uniform(0, 1), w2 : Uniform(0, 1)]

\* config={"steps": 100}
StepsConfig == [steps |-> config_steps]

\* config={"total_weight": 1}
TotalWeightConfig == [total_weight |-> 1]

\* The function each tune.run cell hands to tune.run (its first argument).
Trainable(e) ==
    CASE e = "sigopt_multiobj_exp" -> "multi_objective"
      [] e = "sigopt_prior_multi_exp" -> "objective"
      [] OTHER -> "objective"

\* The configs the trials of each tune.run cell can be given.
TrialConfigs(e) ==
    CASE e = "nevergrad_exp" -> search_config
      [] e = "nevergrad_exp_space" -> {Merge(StepsConfig, c) : c \in NevergradSpace}
      [] e = "bayesopt_exp" -> search_space
      [] e = "sigopt_exp" -> {Merge(StepsConfig, c) : c \in SigOptSpace}
      [] e = "sigopt_multiobj_exp" -> {Merge(TotalWeightConfig, c) : c \in MultiObjSpace}
      [] e = "sigopt_prior_multi_exp" -> PriorSpace

\* objective called directly, on any config with the keys it reads.
CallConfigs ==
    [steps : 0..MaxSteps, width : Uniform(0, 20), height : Uniform(-100, 100),
     activation : Choice(<<"relu", "tanh">>)]

\* ---- the functions of the notebooks

\* activation_boost = 10 if activation=="relu" else 1
activation_boost(activation) == IF activation = "relu" THEN 10 ELSE 1

\* evaluate(step, width, height, activation) of the Nevergrad and SigOpt
\* notebooks:
\*   return (0.1 + width * step / 100) ** (-1) + height * 0.1 + activation_boost
\* The value is kept as the exact fraction <<numerator, denominator>>:
\*   100 / (10 + width*step) + height / 10 + activation_boost
evaluate(st, width, height, activation) ==
    LET d == 10 + width * st
    IN <<1000 + (height + 10 * activation_boost(activation)) * d, 10 * d>>

\* evaluate(step, width, height) of the BayesOpt notebook:
\*   return (0.1 + width * step / 100) ** (-1) + height * 0.1
evaluate_bayesopt(st, width, height) ==
    LET d == 10 + width * st
    IN <<1000 + height * d, 10 * d>>

\* The keys of config the body of objective's loop reads.
LoopKeys(e) ==
    IF e = "bayesopt_exp" THEN {"width", "height"}
    ELSE {"width", "height", "activation"}

\* score = evaluate(step, config["width"], config["height"], config["activation"])
\* (without the activation in the BayesOpt notebook)
Score(e, st, c) ==
    IF e = "bayesopt_exp" THEN evaluate_bayesopt(st, c.width, c.height)
    ELSE evaluate(st, c.width, c.height, c.activation)

\* An objective that numbers its reports from 1.
ReportFromOne(st, score) == [iterations |-> st + 1, mean_loss |-> score]

\* session.report({"iterations": step, "mean_loss": score})
Report(st, score) == [iterations |-> st, mean_loss |-> score]

\* objective is called: range(config["steps"]) is evaluated.  A key the
\* config does not hold raises KeyError.
ObjectiveCall ==
    /\ fnPc = "called"
    /\ fn = "objective"
    /\ keysRead' = keysRead \cup {"steps"}
    /\ IF "steps" \in DOMAIN config
       THEN fnPc' = "loop" /\ UNCHANGED fnErr
       ELSE fnPc' = "raised" /\ fnErr' = "KeyError"
    /\ UNCHANGED <<exp, fn, config, step, reports, notebookVars, jobVars, cleanVars>>

\* One round of  for step in range(config["steps"]):  the score of the step
\* is evaluated and reported.  `step` is the next value of the range.
ObjectiveStep ==
    /\ fnPc = "loop"
    /\ step < config.steps
    /\ keysRead' = keysRead \cup LoopKeys(exp)
    /\ IF LoopKeys(exp) \subseteq DOMAIN config
       THEN /\ reports' = Append(reports, Report(step, Score(exp, step, config)))
            /\ step' = step + 1
            /\ UNCHANGED <<fnPc, fnErr>>
       ELSE /\ fnPc' = "raised"
            /\ fnErr' = "KeyError"
            /\ UNCHANGED <<step, reports>>
    /\ UNCHANGED <<exp, fn, config, notebookVars, jobVars, cleanVars>>

\* The range is exhausted: objective returns.
ObjectiveReturn ==
    /\ fnPc = "loop"
    /\ step = config.steps
    /\ fnPc' = "returned"
    /\ UNCHANGED <<exp, fn, config, step, keysRead, reports, fnErr, notebookVars,
                   jobVars, cleanVars>>

\* multi_objective(config):
\*   w1 = config["w1"]; w2 = config["total_weight"] - w1
\*   average, std = evaluate(w1, w2)
\*   session.report({"average": average, "std": std, "sharpe": average / std})
\* The values are kept as the expressions they are computed by.
MultiObjective ==
    /\ fnPc = "called"
    /\ fn = "multi_objective"
    /\ keysRead' = keysRead \cup {"w1", "total_weight"}
    /\ IF {"w1", "total_weight"} \subseteq DOMAIN config
       THEN LET w1 == config.w1
                w2 == config.total_weight - w1
            IN /\ reports' = Append(reports,
                      [average |-> <<"mean", w1, w2>>, std |-> <<"std", w1, w2>>,
                       sharpe |-> <<"mean/std", w1, w2>>])
               /\ fnPc' = "returned"
               /\ UNCHANGED fnErr
       ELSE /\ fnPc' = "raised"
            /\ fnErr' = "KeyError"
            /\ UNCHANGED reports
    /\ UNCHANGED <<exp, fn, config, step, notebookVars, jobVars, cleanVars>>

\* A trial of one of the experiments starts: tune.run calls the function it
\* was handed with the trial's config.  "call" is a direct call of objective.
TrialStart ==
    /\ \/ /\ exp \in RunCells
          /\ fn = Trainable(exp)
          /\ config \in TrialConfigs(exp)
       \/ /\ exp = "call"
          /\ fn = "objective"
          /\ config \in CallConfigs
    /\ fnPc = "called"
    /\ step = 0
    /\ keysRead = {}
    /\ reports = <<>>
    /\ fnErr = ""

InitTrial ==
    ReadOff /\ TrainOff /\ InferOff /\ TuneOff /\ TrialStart /\ JobOff /\ CleanOff

NextTrial ==
    \/ ObjectiveCall
    \/ ObjectiveStep
    \/ ObjectiveReturn
    \/ MultiObjective

SpecTrial == InitTrial /\ [][NextTrial]_vars

\* The function runs in its own process: a step it can take is taken.
FairSpecTrial == SpecTrial /\ WF_vars(NextTrial)

(***************************************************************************)
(* The cartpole-crashing training job (cartpole-crashing-with-remote-envs- *)
(* pg).  The values are those of the experiment file; what the training    *)
(* framework does with them is written from the file's comments.           *)
(***************************************************************************)
\* The stop values with a zero of timesteps_total dropped.
StopAtTenth == [episode_reward_mean |-> 35, timesteps_total |-> 2500]
\* stop: episode_reward_mean: 35.0, timesteps_total: 25000
stop == [episode_reward_mean |-> 35, timesteps_total |-> 25000]
\* p_crash: 0.0   (the probability of a crash in a step, in thousandths)
p_crash == 0
\* rollout_fragment_length: 50
rollout_fragment_length == 50
\* crash_after_n_steps given the value of rollout_fragment_length.
crash_after_fragment == rollout_fragment_length
\* crash_after_n_steps: 60
crash_after_n_steps == 60
\* init_time_s: 2.0
init_time_s == 2
\* num_workers: 4
num_workers == 4
\* num_envs_per_worker: 3
num_envs_per_worker == 3
\* disable_env_checking: true
disable_env_checking == TRUE
\* The setting restart_failed_sub_environments left at false.
restart_left_off == FALSE
\* restart_failed_sub_environments: true
restart_failed_sub_environments == TRUE

Workers == 1..num_workers
Envs == Workers \X (1..num_envs_per_worker)

\* The episode_reward_mean values a training result can report: just under
\* the stop value, the stop value, and above it.
RewardMeans ==
    {stop.episode_reward_mean - 1, stop.episode_reward_mean,
     stop.episode_reward_mean + 1}

\* ---- the environment and the framework, as the file's comments have them

\* A newly created environment: it has taken no step, and its construction
\* slept init_time_s ("Time for the env to initialize when newly created").
NewEnv(life) ==
    [status |-> "up", timesteps |-> 0, life |-> life, init_s |-> init_time_s]

\* Whether the random draw of a step can make it crash: only with p_crash > 0.
CrashDraws == IF p_crash > 0 THEN BOOLEAN ELSE {FALSE}

\* Whether the step that is step() call number t of an environment crashes:
\* by the draw, or because t is crash_after_n_steps ("Crash all envs always
\* exactly after n steps").
Crashes(t, draw) == draw \/ t = crash_after_n_steps

\* The stop criteria: the job stops with the first result in which one of
\* the named values has reached its threshold.
ShouldStop(res) ==
    \/ res.episode_reward_mean >= stop.episode_reward_mean
    \/ res.timesteps_total >= stop.timesteps_total

\* The job starts: the rollout workers are created, each with its
\* sub-environments.  With the environment check left on the workers crash
\* during initialization, which the restart of sub-environments does not
\* cover.
StartJob ==
    /\ jobPc = "init"
    /\ IF disable_env_checking
       THEN /\ jobPc' = "running"
            /\ worker' = [w \in Workers |-> "running"]
       ELSE /\ jobPc' = "failed"
            /\ worker' = [w \in Workers |-> "failed"]
    /\ env' = [e \in Envs |-> NewEnv(1)]
    /\ UNCHANGED <<fragSteps, sampled, result, notebookVars, trialVars, cleanVars>>

\* One round of sampling: every sub-environment is sent an action and takes
\* a step.  A step that crashes yields no sample and leaves its environment
\* crashed.  The round starts when every sub-environment is up.
Round ==
    /\ jobPc = "running"
    /\ fragSteps < rollout_fragment_length
    /\ \A e \in Envs : env[e].status = "up"
    /\ \E draw \in [Envs -> CrashDraws] :
          LET crashed == {e \in Envs : Crashes(env[e].timesteps + 1, draw[e])}
          IN /\ env' = [e \in Envs |->
                          [env[e] EXCEPT !.timesteps = @ + 1,
                                         !.status = IF e \in crashed
                                                    THEN "crashed" ELSE "up"]]
             /\ sampled' = sampled + Cardinality(Envs \ crashed)
             /\ fragSteps' = IF crashed = {} THEN fragSteps + 1 ELSE fragSteps
    /\ UNCHANGED <<jobPc, worker, result, notebookVars, trialVars, cleanVars>>

\* The crash of sub-environment e is handled.  With the restart of failed
\* sub-environments on, a new environment is created in its place and takes
\* init_time_s to initialize; without it the crash takes the worker down.
HandleCrash(e) ==
    /\ jobPc = "running"
    /\ env[e].status = "crashed"
    /\ IF restart_failed_sub_environments
       THEN /\ env' = [env EXCEPT ![e] = NewEnv(env[e].life + 1)]
            /\ UNCHANGED <<jobPc, worker>>
       ELSE /\ worker' = [worker EXCEPT ![e[1]] = "failed"]
            /\ jobPc' = "failed"
            /\ UNCHANGED env
    /\ UNCHANGED <<fragSteps, sampled, result, notebookVars, trialVars, cleanVars>>

\* The rollout fragments are complete: the training iteration reports its
\* result, and the job stops if the result meets a stop criterion.
ReportResult ==
    /\ jobPc = "running"
    /\ fragSteps = rollout_fragment_length
    /\ \A e \in Envs : env[e].status = "up"
    /\ \E mean \in RewardMeans :
          LET res == [episode_reward_mean |-> mean, timesteps_total |-> sampled]
          IN /\ result' = res
             /\ jobPc' = IF ShouldStop(res) THEN "stopped" ELSE "running"
    /\ fragSteps' = 0
    /\ UNCHANGED <<worker, env, sampled, notebookVars, trialVars, cleanVars>>

JobStart ==
    /\ jobPc = "init"
    /\ worker = <<>>
    /\ env = <<>>
    /\ fragSteps = 0
    /\ sampled = 0
    /\ result = <<>>

InitJob ==
    ReadOff /\ TrainOff /\ InferOff /\ TuneOff /\ TrialOff /\ JobStart /\ CleanOff

NextJob ==
    \/ StartJob
    \/ Round
    \/ \E e \in Envs : HandleCrash(e)
    \/ ReportResult

SpecJob == InitJob /\ [][NextJob]_vars

\* The workers and the environments are processes of their own: a step
\* that can be taken is taken.
FairSpecJob == SpecJob /\ WF_vars(NextJob)

(***************************************************************************)
(* Cleaning the data: the two filters, the dropped columns and the         *)
(* projection and filter pushdown.                                         *)
(***************************************************************************)
\* The passenger counts of the rows: the kinds the notebook's outputs show
\* (negative, zero, the least and the greatest kept, more than 10).
PassengerCounts == {0 - 48, 0, 1, 10, 11}

\* A row of the files, with those of its columns the cells name and one
\* they do not.
Rows ==
    [passenger_count : PassengerCounts, trip_distance : {1},
     store_and_fwd_flag : {"N"}, mta_tax : {0}, tip_amount : {0}]

\* The sequences of at most n elements of S.
SeqsUpTo(S, n) == UNION {[1..k -> S] : k \in 0..n}

\* ---- the dataset library, as the notebook documents it

\* The rows of the blocks, in order.
RECURSIVE Flatten(_)
Flatten(blocks) ==
    IF blocks = <<>> THEN <<>>
    ELSE blocks[1] \o Flatten(Tail(blocks))

\* A row with only the columns of cols.
Project(row, cols) == [c \in DOMAIN row \cap cols |-> row[c]]

\* read_parquet(paths): one block per file, with every column and row.
ReadParquet(fs) == fs

\* read_parquet(paths, columns=cols, filter=expr): one block per file, with
\* the columns of cols of the rows that pass expr.
ReadParquetPushdown(fs, cols, expr) ==
    [f \in DOMAIN fs |->
        LET kept == SelectSeq(fs[f], LAMBDA row : expr[row])
        IN [k \in DOMAIN kept |-> Project(kept[k], cols)]]

\* drop_columns(cols): every row without the columns of cols.
DropColumns(blocks, cols) ==
    [b \in DOMAIN blocks |->
        [k \in DOMAIN blocks[b] |->
            Project(blocks[b][k], DOMAIN blocks[b][k] \ cols)]]

\* df[mask]: the rows of the batch at which the boolean series mask is
\* true, in order.
MaskRows(df, mask) ==
    LET kept == SelectSeq([k \in DOMAIN df |-> k], LAMBDA k : mask[k])
    IN [j \in DOMAIN kept |-> df[kept[j]]]

\* ---- the cells

\* A filter that keeps the rows with no passenger.
NotNegative(df) == [k \in DOMAIN df |-> df[k].passenger_count >= 0]

\* df["passenger_count"] <= 10
AtMostTen(df) == [k \in DOMAIN df |-> df[k].passenger_count <= 10]

\* df["passenger_count"] > 0
Positive(df) == [k \in DOMAIN df |-> df[k].passenger_count > 0]

\* A filter expression without its second term.
filter_expr_first_term == [row \in Rows |-> row.passenger_count <= 10]

\* filter_expr = ((pa.dataset.field("passenger_count") <= 10)
\*                & (pa.dataset.field("passenger_count") > 0))
filter_expr ==
    [row \in Rows |-> row.passenger_count <= 10 /\ row.passenger_count > 0]

\* ds = ds.map_batches(lambda df: df[df["passenger_count"] <= 10])
FilterOverTen ==
    /\ cleanPc = "filter_over_10"
    /\ cleanPc' = "drop_columns"
    /\ ds' = [b \in DOMAIN ds |-> MaskRows(ds[b], AtMostTen(ds[b]))]
    /\ UNCHANGED <<fileData, pushdown_ds, notebookVars, trialVars, jobVars>>

\* ds = ds.drop_columns(["store_and_fwd_flag", "mta_tax"])
DropColumnsCell ==
    /\ cleanPc = "drop_columns"
    /\ cleanPc' = "groupby"
    /\ ds' = DropColumns(ds, {"store_and_fwd_flag", "mta_tax"})
    /\ UNCHANGED <<fileData, pushdown_ds, notebookVars, trialVars, jobVars>>

\* ds.groupby("passenger_count").count().take()
GroupByCount ==
    /\ cleanPc = "groupby"
    /\ cleanPc' = "filter_negative"
    /\ UNCHANGED <<fileData, ds, pushdown_ds, notebookVars, trialVars, jobVars>>

\* ds = ds.map_batches(lambda df: df[df["passenger_count"] > 0])
FilterNegative ==
    /\ cleanPc = "filter_negative"
    /\ cleanPc' = "pushdown"
    /\ ds' = [b \in DOMAIN ds |-> MaskRows(ds[b], Positive(ds[b]))]
    /\ UNCHANGED <<fileData, pushdown_ds, notebookVars, trialVars, jobVars>>

\* pushdown_ds = ray.data.read_parquet([...2009/01..., ...2009/02...],
\*     columns=["passenger_count", "trip_distance"], filter=filter_expr)
\* pushdown_ds = pushdown_ds.fully_executed()
PushdownRead ==
    /\ cleanPc = "pushdown"
    /\ cleanPc' = "del_pushdown"
    /\ pushdown_ds' = ReadParquetPushdown(fileData, {"passenger_count", "trip_distance"},
                                          filter_expr)
    /\ UNCHANGED <<fileData, ds, notebookVars, trialVars, jobVars>>

\* del pushdown_ds
DelPushdown ==
    /\ cleanPc = "del_pushdown"
    /\ cleanPc' = "end"
    /\ pushdown_ds' = <<>>
    /\ UNCHANGED <<fileData, ds, notebookVars, trialVars, jobVars>>

\* Before the first cleaning cell: ds has been read from the two files.
CleanStart ==
    /\ cleanPc = "filter_over_10"
    /\ fileData \in [DsFiles -> SeqsUpTo(Rows, MaxCleanRows)]
    /\ ds = ReadParquet(fileData)
    /\ pushdown_ds = <<>>

InitClean ==
    ReadOff /\ TrainOff /\ InferOff /\ TuneOff /\ TrialOff /\ JobOff /\ CleanStart

NextClean ==
    \/ FilterOverTen
    \/ DropColumnsCell
    \/ GroupByCount
    \/ FilterNegative
    \/ PushdownRead
    \/ DelPushdown

SpecClean == InitClean /\ [][NextClean]_vars

(***************************************************************************)
(* Claims on reading and inspecting.                                       *)
(***************************************************************************)
\* C1: once ds is bound the first file has been read, and as long as only
\* schema(), count(), the repr, take(1) and size_bytes() have been run on
\* ds, in any order and any number of times, the second file has not.
C1_SemiLazyRead ==
    (readPc = "ds" /\ ran \cap ConsumeCells = {}) =>
        (1 \in dsRead /\ 2 \notin dsRead)

\* All five inspection cells have run and the second file is still unread.
C1_Witness ==
    /\ readPc = "ds"
    /\ InspectCells \subseteq ran
    /\ ran \cap ConsumeCells = {}
    /\ dsRead = {1}

\* C2: once fully_executed() has returned, or max() or map_batches().take()
\* has completed, every file of ds has been read.
C2_ReadWhenNeeded ==
    (ran \cap ConsumeCells # {}) => dsRead = DsFiles

\* max() alone, without fully_executed(), has brought in both files.
C2_Witness ==
    /\ ran \cap ConsumeCells = {"max"}
    /\ dsRead = DsFiles

\* C3: showing the repr of ds or of year_ds reads no file, and when year_ds
\* is deleted at most the one eagerly read file of its 12 has been read.
C3_ReprReadsNothing ==
    /\ [][(ReprDs \/ ReprYearDs) =>
            (dsRead' = dsRead /\ yearRead' = yearRead)]_vars
    /\ [](yearDs = "deleted" => Cardinality(yearRead) <= 1)

\* year_ds was shown, then deleted, with one file of the 12 read.
C3_Witness ==
    /\ yearDs = "deleted"
    /\ "year_repr" \in ran
    /\ yearRead = {1}
    /\ NumYearFiles > 1

(***************************************************************************)
(* Claims on ingesting into model trainers.                                *)
(***************************************************************************)
\* C4: ds.split(n=len(trainers), equal=True) returns exactly len(trainers)
\* = 4 shards, and all of them hold the same number of rows, whatever the
\* number of rows of ds.
C4_EqualShards ==
    (trainPc \in {"train", "get", "del", "end"}) =>
        /\ Len(shards) = 4
        /\ trainPc \in {"train", "get", "del"} => Len(shards) = Len(handles)
        /\ \A i, j \in 1..Len(shards) :
               ShardCount(shards[i]) = ShardCount(shards[j])

\* ds was split with a number of rows that 4 does not divide.
C4_Witness ==
    /\ trainPc = "train"
    /\ dsRows % 4 # 0
    /\ ShardCount(shards[1]) > 0
    /\ ShardCount(shards[4]) = ShardCount(shards[1])

\* C5: the train call on trainer i is handed shard i; it is given batches of
\* at most 256 rows, has gone over its whole shard when it returns, and
\* returns the row count of that shard; ray.get returns the four counts in
\* the order of the trainers, in whatever order the calls finished.
C5_TrainShards ==
    /\ \A i \in DOMAIN task :
        /\ task[i] # "none" => tshard[i] = shards[i]
        /\ lastBatch[i] <= 256
        /\ task[i] = "returned" =>
              /\ consumed[i] = ShardCount(shards[i])
              /\ retval[i] = ShardCount(shards[i])
    /\ results # <<>> =>
        /\ Len(results) = 4
        /\ \A i \in 1..4 : results[i] = ShardCount(shards[i])

\* The calls finished in the reverse order, each after more than one batch,
\* and ray.get has returned.
C5_Witness ==
    /\ results # <<>>
    /\ finished = <<4, 3, 2, 1>>
    /\ results[1] > 256
    /\ lastBatch[1] < 256

C7_PoolBounds ==
    (inferPc = "strategy_run" /\ stage = "running") =>
        (2 <= workers /\ workers <= 8)

\* The pool of the strategy stage has grown to its 8 workers.
C7_Witness ==
    /\ inferPc = "strategy_run"
    /\ stage = "running"
    /\ workers = 8
    /\ \E b \in Blocks : blockLeft[b] > 0

(***************************************************************************)
(* Claims on the Tune notebooks.                                           *)
(***************************************************************************)
\* C8: in the Nevergrad and BayesOpt notebooks, whose searcher is wrapped in
\* ConcurrencyLimiter(algo, max_concurrent=4), no more than 4 trials of a
\* tune.run call are running at the same time.
C8_AtMostFourTrials ==
    nb \in {"nevergrad", "bayesopt"} => Cardinality(Running) <= 4

\* Four trials of a run are running and more are still to be started.
C8_Witness ==
    /\ nb \in {"nevergrad", "bayesopt"}
    /\ runState = "running"
    /\ Cardinality(Running) = 4
    /\ Len(trials) < run.samples
    /\ NumCPUs > 4

\* C9: in the SigOpt notebook (SigOptSearch(..., max_concurrent=1)) at most
\* one trial is running at any time: every trial but the one started last
\* is complete, so a trial is started only after the one before it has
\* completed.
C9_OneTrialAtATime ==
    nb = "sigopt" =>
        /\ Cardinality(Running) <= 1
        /\ \A t \in 1..(Len(trials) - 1) : trials[t] = "TERMINATED"

\* A later trial of a SigOpt run is running, the earlier ones are complete.
C9_Witness ==
    /\ nb = "sigopt"
    /\ runState = "running"
    /\ Len(trials) >= 3
    /\ Running = {Len(trials)}

\* C10: a tune.run call starts exactly as many trials as the num_samples it
\* is called with (the value of the variable num_samples at the call), and
\* then finishes: it never has more trials, once it has returned it has
\* that many and all of them are complete, and a call that has started
\* returns.
C10_NumSamplesTrials ==
    /\ [](runState # "idle" =>
            /\ run.samples = num_samples
            /\ Len(trials) <= num_samples)
    /\ [](runState = "finished" =>
            /\ Len(trials) = num_samples
            /\ \A t \in 1..Len(trials) : trials[t] = "TERMINATED")
    /\ [](runState = "running" => <>(runState = "finished"))

\* A Nevergrad or BayesOpt run has returned with its 10 trials complete.
C10_Witness ==
    /\ nb \in {"nevergrad", "bayesopt"}
    /\ runState = "finished"
    /\ num_samples = 10
    /\ Len(trials) = 10

C12_ObjectiveLoop ==
    /\ []((fn = "objective" /\ fnPc \in {"loop", "returned"}) =>
            /\ Len(reports) <= config.steps
            /\ \A k \in 1..Len(reports) :
                  /\ reports[k].iterations = k - 1
                  /\ reports[k].mean_loss = Score(exp, k - 1, config)
            /\ fnPc = "returned" => Len(reports) = config.steps)
    /\ [](fnPc = "loop" => <>(fnPc = "returned"))

\* A trial of sigopt_exp with the relu activation has returned after its
\* 100 reports.
C12_Witness ==
    /\ exp = "sigopt_exp"
    /\ fnPc = "returned"
    /\ config.activation = "relu"
    /\ Len(reports) = 100
    /\ reports[100].iterations = 99

\* C13: in the SigOpt notebook run without SIGOPT_KEY, the imports cell
\* raises ValueError, and the run never gets past that first cell: no
\* ray.init, no SigOptSearch, no tune.run and no trial.
C13_NoKeyNoRun ==
    /\ [][(nb = "sigopt" /\ ~sigoptKey /\ ImportsKeyCheck)
            => tuneErr' = "ValueError"]_vars
    /\ []((nb = "sigopt" /\ ~sigoptKey) =>
            /\ tunePc = 1
            /\ tuneErr \in {"", "ValueError"}
            /\ algo = <<>>
            /\ run = <<>>
            /\ runState = "idle"
            /\ trials = <<>>)

\* The imports cell has raised ValueError and the notebook stands at it.
C13_Witness ==
    /\ nb = "sigopt"
    /\ ~sigoptKey
    /\ tuneErr = "ValueError"
    /\ tunePc = 1
    /\ Cells(nb)[4] = "ray_init"

(***************************************************************************)
(* Claims on the cartpole-crashing training job.                           *)
(***************************************************************************)
\* C14: with restart_failed_sub_environments: true a crashed remote
\* sub-environment is replaced, in its place, by a newly created one that
\* has gone through its init_time_s initialisation; whenever one has crashed,
\* every one of the 4 workers eventually has its 3 sub-environments up
\* again; and no rollout worker stops running.
C14_RestartInPlace ==
    /\ [](\A w \in DOMAIN worker : worker[w] = "running")
    /\ [][\A e \in DOMAIN env :
            (env[e].status = "crashed" /\ env'[e] # env[e]) =>
                env'[e] = [status |-> "up", timesteps |-> 0,
                           life |-> env[e].life + 1, init_s |-> 2]]_vars
    /\ []((\E e \in DOMAIN env : env[e].status = "crashed") =>
            <>(/\ DOMAIN env = Envs
               /\ \A w \in 1..4 :
                    Cardinality({k \in 1..3 : env[<<w, k>>].status = "up"}) = 3))

\* One sub-environment is up in its third life while another of the same
\* worker is still down, and every worker runs.
C14_Witness ==
    /\ jobPc = "running"
    /\ \A w \in Workers : worker[w] = "running"
    /\ env[<<1, 1>>].status = "up"
    /\ env[<<1, 1>>].life = 3
    /\ env[<<1, 2>>].status = "crashed"

C16_StopCriteria ==
    /\ []((jobPc = "running" /\ DOMAIN result # {}) =>
            /\ result.episode_reward_mean < 35
            /\ result.timesteps_total < 25000)
    /\ [](jobPc = "stopped" =>
            \/ result.episode_reward_mean >= 35
            \/ result.timesteps_total >= 25000)
    /\ <>(jobPc = "stopped")

\* The job has stopped on timesteps_total alone, every sub-environment
\* recreated many times over.
C16_Witness ==
    /\ jobPc = "stopped"
    /\ result.timesteps_total >= 25000
    /\ result.episode_reward_mean < 35
    /\ \A e \in Envs : env[e].life > 30

(***************************************************************************)
(* Claims on cleaning the data.                                            *)
(***************************************************************************)
\* C17: after the two cleaning steps every row of ds has 0 < passenger_count
\* <= 10, and the rows of ds are the rows of the files that have, in their
\* order and with the columns the cells in between left them: the filters
\* removed nothing else.
C17_CleanRows ==
    cleanPc \in {"pushdown", "del_pushdown", "end"} =>
        /\ \A b \in DOMAIN ds : \A k \in DOMAIN ds[b] :
              0 < ds[b][k].passenger_count /\ ds[b][k].passenger_count <= 10
        /\ \A b \in DOMAIN fileData :
              LET good == SelectSeq(fileData[b],
                              LAMBDA r : 0 < r.passenger_count /\ r.passenger_count <= 10)
              IN /\ Len(ds[b]) = Len(good)
                 /\ \A k \in DOMAIN good :
                       \A c \in DOMAIN ds[b][k] : ds[b][k][c] = good[k][c]
                 /\ \A k \in DOMAIN good :
                       DOMAIN good[k] \ DOMAIN ds[b][k] = {"store_and_fwd_flag", "mta_tax"}

\* Both filters have removed rows, a row at each end of the range is kept.
C17_Witness ==
    /\ cleanPc = "pushdown"
    /\ \E k \in DOMAIN fileData[1] : fileData[1][k].passenger_count > 10
    /\ \E k \in DOMAIN fileData[2] : fileData[2][k].passenger_count <= 0
    /\ Len(ds[1]) = 1 /\ ds[1][1].passenger_count = 10
    /\ Len(ds[2]) = 1 /\ ds[2][1].passenger_count = 1

\* C18: the rows of pushdown_ds, read with the column selection and the row
\* filter pushed down, are the rows of ds after the two map_batches filters,
\* projected onto passenger_count and trip_distance, in the same order.
C18_PushdownEquivalent ==
    cleanPc = "del_pushdown" =>
        LET rows == Flatten(ds)
        IN Flatten(pushdown_ds) =
              [k \in DOMAIN rows |->
                  [passenger_count |-> rows[k].passenger_count,
                   trip_distance |-> rows[k].trip_distance]]

\* pushdown_ds holds rows of both files and has left out a row with no
\* passenger.
C18_Witness ==
    /\ cleanPc = "del_pushdown"
    /\ Len(pushdown_ds[1]) > 0
    /\ Len(pushdown_ds[2]) > 0
    /\ Len(Flatten(pushdown_ds)) < Len(Flatten(fileData))
    /\ \E k \in DOMAIN fileData[1] : fileData[1][k].passenger_count = 0

\* C19: in a trial of the first Nevergrad experiment that has evaluated a
\* step, the activation of the config is "relu" or "tanh", so that evaluate
\* adds the boost 10 or the boost 1 according to it.  The code does not keep
\* this: search_config's choice is over the one string "relu, tanh".
C19_ActivationOfTrial ==
    (exp = "nevergrad_exp" /\ Len(reports) > 0) =>
        config.activation \in {"relu", "tanh"}

\* C20: when the function handed to tune.run in the prior-beliefs run has
\* ended, it has read only keys its trial's config holds, it has raised
\* nothing, and it has reported the metrics "average" and "std".  The code
\* does not keep this: the cell hands objective to tune.run, which reads
\* config["steps"], a key no trial of this run is given.
C20_PriorRunFunction ==
    (exp = "sigopt_prior_multi_exp" /\ fnPc \in {"returned", "raised"}) =>
        /\ keysRead \subseteq DOMAIN config
        /\ fnErr = ""
        /\ Len(reports) > 0
        /\ \A k \in DOMAIN reports : {"average", "std"} \subseteq DOMAIN reports[k]

C22_ShardsCover ==
    (trainPc \in {"train", "get", "del", "end"}) =>
        /\ \A i \in 1..4 :
              0 <= shards[i][1] /\ shards[i][1] <= shards[i][2] /\ shards[i][2] <= dsRows
        /\ \A i, j \in 1..4 : i < j => shards[i][2] <= shards[j][1]
        /\ ShardCount(shards[1]) + ShardCount(shards[2]) + ShardCount(shards[3])
              + ShardCount(shards[4]) = dsRows - (dsRows % 4)
        /\ results # <<>> =>
              results[1] + results[2] + results[3] + results[4] = dsRows - (dsRows % 4)

\* ray.get has returned the counts of the shards of a ds from which one row
\* was dropped (as in the recorded run: 27471693 rows, four shards of
\* 6867923).
C22_Witness ==
    /\ results # <<>>
    /\ dsRows % 4 = 1
    /\ results[1] > 0
    /\ results[1] + results[2] + results[3] + results[4] = dsRows - 1

\* C22 as first stated: the four row counts add up to ds.count(), no row is
\* dropped.
C22_NoRowDropped ==
    results # <<>> =>
        results[1] + results[2] + results[3] + results[4] = dsRows

====
